---- MODULE Spec2Model ----
(***************************************************************************)
(* Lifecycle supervisor of go-coldbrew/core (src/core.go): cb.Run,         *)
(* cb.Stop, timedCall, cb.close and the signal watcher                     *)
(* (src/initializers.go).  Goroutines are processes; every action is one   *)
(* atomic step of one goroutine.                                           *)
(*                                                                         *)
(* Library behaviour the code relies on:                                   *)
(*  - errChan is a buffered channel: a send blocks while it is full.      *)
(*  - sync.WaitGroup: Add/Done change the counter; Wait returns at once    *)
(*    when the counter is zero, otherwise parks until a Done brings the    *)
(*    counter to zero.  A parked Wait that wakes and finds the counter     *)
(*    non-zero again panics ("WaitGroup is reused before previous Wait     *)
(*    has returned"); a panic ends the process.                            *)
(*  - grpc.Server: GracefulStop stops accepting and waits for in-flight    *)
(*    RPCs; Stop stops at once and releases pending GracefulStops; Serve   *)
(*    on a stopped server returns ErrServerStopped, Serve ended by         *)
(*    Stop/GracefulStop returns nil.                                       *)
(*  - http.Server: Shutdown closes the listeners first; ListenAndServe     *)
(*    then (or afterwards) returns ErrServerClosed, never nil.             *)
(*  - cb has no lock: c.svc is read unsynchronised by Run and Stop, so     *)
(*    services are registered before Run or Stop is first called.          *)
(***************************************************************************)
EXTENDS Integers, Sequences, FiniteSets, TLC

\* ---------------------------------------------------------------- bounds
MaxSvc == 2
MaxStops == 1
MaxClosers == 1

\* ------------------------------------------------------- program values
\* Stop invocation 0 is the one made by the signal watcher; 1..MaxStops are
\* explicit callers, numbered in the order in which they enter Stop.
SignalStop == 0
StopIds == 0..MaxStops

\* A registered service: which optional interfaces it implements
\* (CBGracefulStopper with FailCheck, CBStopper with Stop).
Plain == [fail |-> FALSE, stop |-> FALSE]
Graceful == [fail |-> TRUE, stop |-> TRUE]
ServiceKinds == {Plain, Graceful}

\* The optional interfaces are independent of each other: a service may
\* implement either alone (part_011:27-39).
CapabilityKinds == [fail : BOOLEAN, stop : BOOLEAN]

\* The nil CBService value.
NilService == [nil |-> TRUE]

\* time.Duration arguments of Stop: zero or positive.
Durations == {0, 1}

\* core.go:34-37.
DefaultShutdownDurationInSeconds == 15

\* time.Duration is a signed 64-bit count of nanoseconds and time.Second
\* is 10^9 of them; products wrap around silently.  The same arithmetic is
\* kept here at a width the checker's integers can hold: a signed count of
\* DurationBits bits with Second ticks to the second, so that the largest
\* duration is 31 s where int64 nanoseconds give 9,223,372,036 s.
DurationBits == 8
Second == 4

\* Values of ShutdownDurationInSeconds (an int): negative, zero, positive,
\* the default, and the two sides of the largest number of seconds a
\* Duration can hold.
ShutdownSeconds == {-1, 0, 1, DefaultShutdownDurationInSeconds, 31, 32}

\* x as a Duration: two's complement wrap-around to DurationBits bits.
WrapDuration(x) ==
    ((x + 2^(DurationBits - 1)) % 2^DurationBits) - 2^(DurationBits - 1)

\* core.go:108-111: dur := time.Second * time.Duration(n), replaced by
\* time.Second * DefaultShutdownDurationInSeconds when n <= 0.
SignalDuration(n) ==
    IF n <= 0
    THEN WrapDuration(Second * DefaultShutdownDurationInSeconds)
    ELSE WrapDuration(Second * n)

\* The configuration with the defaults of config.go:75-77 for the signal
\* handler and the health-check wait as given.
DefaultConfigs(waits) ==
    [wait : waits, disable : {FALSE},
     shutdown : {DefaultShutdownDurationInSeconds}]

VARIABLES
    svc,            \* c.svc: sequence of registered services
    setRet,         \* result of the last SetService call: "none" before the first
    config,         \* c.config: [wait] (HealthcheckWaitDurationInSeconds > 0),
                    \* [disable] (DisableSignalHandler), [shutdown] (ShutdownDurationInSeconds)
    sigDur,         \* dur given to the signal watcher by processConfig; 0 with no watcher
    closers,        \* c.closers: number of closers accumulated by processConfig
    closeCalls,     \* per closer, how often Close() was called
    grpcServer,     \* c.grpcServer: "nil" or the state of the server it points to
    httpServer,     \* c.httpServer: "nil" or the state of the server it points to
    cancelFunc,     \* c.cancelFunc: "nil" or "set"
    gracefulWait,   \* c.gracefulWait counter
    errChan,        \* the fan-in channel of Run
    runPC,          \* position of Run
    runLocal,       \* locals of Run: services bound by initGRPC / initHTTP, close() index,
                    \* and log, the binder calls made so far: [b, i, err]
    runErr,         \* err of Run: [src, err], src the task whose outcome was read
    grpcTask,       \* goroutine of line 353: "none", "spawned", "serving", "returned"
    httpTask,       \* goroutine of line 357
    stopPC,         \* position of each Stop invocation
    stopIdx,        \* loop index of each Stop invocation
    ctxDone,        \* per Stop: its timeout context is done (kept while Stop can read it)
    gsTask,         \* per Stop: goroutine of timedCall: "none", "waiting", "done"
    shutTask,       \* goroutines of line 410 running Shutdown: "none", "spawned", "done"
    forced,         \* per Stop: grpcServer.Stop() was called by it
    stopRet,        \* per Stop: the error it returned: "none" before its return
    failCalls,      \* per service: FailCheck(true) calls received
    stopCalls,      \* per service: Stop() calls received
    watcher,        \* signal watcher: "none" (not started), "watching", "stopping", "exited"
    signals,        \* number of signals in the watcher's channel (capacity 1)
    panicked        \* the process died of a panic

vars == <<svc, setRet, config, sigDur, closers, closeCalls, grpcServer, httpServer, cancelFunc,
          gracefulWait, errChan, runPC, runLocal, runErr, grpcTask, httpTask,
          stopPC, stopIdx, ctxDone, gsTask, shutTask, forced, stopRet,
          failCalls, stopCalls, watcher, signals, panicked>>

svcVars == <<svc, setRet, failCalls, stopCalls>>
runVars == <<runPC, runLocal, runErr, closeCalls, cancelFunc>>
taskVars == <<grpcTask, httpTask, errChan>>
stopVars == <<stopPC, stopIdx, ctxDone, gsTask, shutTask, forced, stopRet>>
sigVars == <<watcher, signals>>
fixedVars == <<config, closers, sigDur>>

\* ------------------------------------------------------------- helpers
SvcIdx == 1..Len(svc)

\* A Stop invocation is in flight from its Add(1) to its Done().
InFlight(s) == stopPC[s] \notin {"idle", "returned"}

\* A transport accepts work.
GRPCAccepting == grpcTask = "serving" /\ grpcServer = "ready"
HTTPAccepting == httpTask = "serving" /\ httpServer = "ready"

\* The lifecycle has begun: Run or some Stop has been entered.
Started == runPC # "idle" \/ \E s \in StopIds : stopPC[s] # "idle"

\* -------------------------------------------------------------- Init
\* New (core.go:454-461): config stored; processConfig has appended the
\* tracer closer (102-105) and, unless DisableSignalHandler is set, computed
\* dur and started the signal watcher with it (107-114).  reg is the
\* registry: empty after New, or as left by the SetService calls made
\* before Run; cfgs are the configurations New may be given.
CreatedWith(reg, cfgs) ==
    /\ svc = reg
    /\ setRet = IF reg = <<>> THEN "none" ELSE "nil"
    /\ config \in cfgs
    /\ sigDur = IF config.disable THEN 0 ELSE SignalDuration(config.shutdown)
    /\ closers = MaxClosers
    /\ closeCalls = [j \in 1..closers |-> 0]
    /\ grpcServer = "nil"
    /\ httpServer = "nil"
    /\ cancelFunc = "nil"
    /\ gracefulWait = 0
    /\ errChan = <<>>
    /\ runPC = "idle"
    /\ runLocal = [grpc |-> 0, http |-> 0, i |-> 0, log |-> <<>>]
    /\ runErr = [src |-> "none", err |-> "nil"]
    /\ grpcTask = "none"
    /\ httpTask = "none"
    /\ stopPC = [s \in StopIds |-> "idle"]
    /\ stopIdx = [s \in StopIds |-> 0]
    /\ ctxDone = [s \in StopIds |-> FALSE]
    /\ gsTask = [s \in StopIds |-> "none"]
    /\ shutTask = "none"
    /\ forced = [s \in StopIds |-> FALSE]
    /\ stopRet = [s \in StopIds |-> "none"]
    /\ failCalls = [i \in 1..Len(reg) |-> 0]
    /\ stopCalls = [i \in 1..Len(reg) |-> 0]
    /\ watcher = IF config.disable THEN "none" ELSE "watching"
    /\ signals = 0
    /\ panicked = FALSE

Created(reg, waits) == CreatedWith(reg, DefaultConfigs(waits))

Init == Created(<<>>, BOOLEAN)

\* ---------------------------------------------------------- SetService
\* SetService that puts the service in front of the registry.
SetServicePrepend(k) ==
    /\ ~Started
    /\ IF k = NilService
       THEN /\ setRet' = "ErrNoService"
            /\ UNCHANGED <<svc, failCalls, stopCalls>>
       ELSE /\ Len(svc) < MaxSvc
            /\ svc' = <<k>> \o svc
            /\ failCalls' = Append(failCalls, 0)
            /\ stopCalls' = Append(stopCalls, 0)
            /\ setRet' = "nil"
    /\ UNCHANGED <<runVars, taskVars, stopVars, sigVars, fixedVars,
                   grpcServer, httpServer, gracefulWait, panicked>>

\* core.go:56-64: a nil service is refused with ErrNoService; any other is
\* appended and nil returned.
SetService(k) ==
    /\ ~Started
    /\ IF k = NilService
       THEN /\ setRet' = "ErrNoService"
            /\ UNCHANGED <<svc, failCalls, stopCalls>>
       ELSE /\ Len(svc) < MaxSvc
            /\ svc' = Append(svc, k)
            /\ failCalls' = Append(failCalls, 0)
            /\ stopCalls' = Append(stopCalls, 0)
            /\ setRet' = "nil"
    /\ UNCHANGED <<runVars, taskVars, stopVars, sigVars, fixedVars,
                   grpcServer, httpServer, gracefulWait, panicked>>

\* ------------------------------------------------------------ binders
\* The loop over c.svc with every binder called, also after one has failed.
BinderCallsAll(b, bad) ==
    [j \in 1..Len(svc) |-> [b |-> b, i |-> j, err |-> (j = bad)]]

\* The loops of core.go:302-306 and 219-223: binder b is called on the
\* services in registration order, up to and including the first that
\* returns an error (bad, 0 for none), at which the loop returns.
BinderCalls(b, bad) ==
    [j \in 1..(IF bad = 0 THEN Len(svc) ELSE bad) |->
        [b |-> b, i |-> j, err |-> (j = bad)]]

\* RunInitGRPC that records the binder error and goes on to initHTTP.
RunInitGRPCSpawn ==
    /\ ~panicked
    /\ runPC = "idle"
    /\ cancelFunc' = "set"
    /\ \E bad \in 0..Len(svc) :
        IF bad = 0
        THEN /\ runLocal' = [runLocal EXCEPT !.grpc = Len(svc),
                                  !.log = @ \o BinderCalls("InitGRPC", bad)]
             /\ UNCHANGED runErr
        ELSE /\ runLocal' = [runLocal EXCEPT !.grpc = bad - 1,
                                  !.log = @ \o BinderCalls("InitGRPC", bad)]
             /\ runErr' = [src |-> "init", err |-> "ErrInitGRPC"]
    /\ grpcServer' = "ready"
    /\ runPC' = "initHTTP"
    /\ UNCHANGED <<svcVars, taskVars, stopVars, sigVars, fixedVars, closeCalls,
                   httpServer, gracefulWait, panicked>>

\* ------------------------------------------------------------------ Run
\* core.go:334-344 with initGRPC (300-309): the cancellable context is
\* stored; every service is bound to a new server in registration order,
\* and the first binder that fails (bad, 0 for none) aborts Run with
\* c.grpcServer left nil.
RunInitGRPC ==
    /\ ~panicked
    /\ runPC = "idle"
    /\ cancelFunc' = "set"
    /\ \E bad \in 0..Len(svc) :
        IF bad = 0
        THEN /\ runLocal' = [runLocal EXCEPT !.grpc = Len(svc),
                                  !.log = @ \o BinderCalls("InitGRPC", bad)]
             /\ grpcServer' = "ready"
             /\ runPC' = "initHTTP"
             /\ UNCHANGED runErr
        ELSE /\ runLocal' = [runLocal EXCEPT !.grpc = bad - 1,
                                  !.log = @ \o BinderCalls("InitGRPC", bad)]
             /\ runErr' = [src |-> "init", err |-> "ErrInitGRPC"]
             /\ runPC' = "returned"
             /\ UNCHANGED grpcServer
    /\ UNCHANGED <<svcVars, taskVars, stopVars, sigVars, fixedVars, closeCalls,
                   httpServer, gracefulWait, panicked>>

\* RunInitHTTP with the error of a gateway binder ignored.
RunInitHTTPIgnoreErr ==
    /\ ~panicked
    /\ runPC = "initHTTP"
    /\ \E bad \in 0..Len(svc) :
        runLocal' = [runLocal EXCEPT !.http = IF bad = 0 THEN Len(svc) ELSE bad - 1,
                                     !.log = @ \o BinderCalls("InitHTTP", bad)]
    /\ httpServer' = "ready"
    /\ runPC' = "spawn"
    /\ UNCHANGED <<svcVars, taskVars, stopVars, sigVars, fixedVars, closeCalls,
                   runErr, cancelFunc, grpcServer, gracefulWait, panicked>>

\* RunInitHTTP that, on a binder error, goes on to the wait for Stop
\* invocations and to close().
RunInitHTTPWaitOnErr ==
    /\ ~panicked
    /\ runPC = "initHTTP"
    /\ \E bad \in 0..Len(svc) :
        IF bad = 0
        THEN /\ runLocal' = [runLocal EXCEPT !.http = Len(svc),
                                  !.log = @ \o BinderCalls("InitHTTP", bad)]
             /\ httpServer' = "ready"
             /\ runPC' = "spawn"
             /\ UNCHANGED runErr
        ELSE /\ runLocal' = [runLocal EXCEPT !.http = bad - 1,
                                  !.log = @ \o BinderCalls("InitHTTP", bad)]
             /\ runErr' = [src |-> "init", err |-> "ErrInitHTTP"]
             /\ runPC' = "wait"
             /\ UNCHANGED httpServer
    /\ UNCHANGED <<svcVars, taskVars, stopVars, sigVars, fixedVars, closeCalls,
                   cancelFunc, grpcServer, gracefulWait, panicked>>

\* core.go:346-349 with initHTTP (180-265, the binder loop at 219-223).
RunInitHTTP ==
    /\ ~panicked
    /\ runPC = "initHTTP"
    /\ \E bad \in 0..Len(svc) :
        IF bad = 0
        THEN /\ runLocal' = [runLocal EXCEPT !.http = Len(svc),
                                  !.log = @ \o BinderCalls("InitHTTP", bad)]
             /\ httpServer' = "ready"
             /\ runPC' = "spawn"
             /\ UNCHANGED runErr
        ELSE /\ runLocal' = [runLocal EXCEPT !.http = bad - 1,
                                  !.log = @ \o BinderCalls("InitHTTP", bad)]
             /\ runErr' = [src |-> "init", err |-> "ErrInitHTTP"]
             /\ runPC' = "returned"
             /\ UNCHANGED httpServer
    /\ UNCHANGED <<svcVars, taskVars, stopVars, sigVars, fixedVars, closeCalls,
                   cancelFunc, grpcServer, gracefulWait, panicked>>

\* core.go:351-359: the channel is made and both transport tasks started.
RunSpawn ==
    /\ ~panicked
    /\ runPC = "spawn"
    /\ grpcTask' = "spawned"
    /\ httpTask' = "spawned"
    /\ runPC' = "recv"
    /\ UNCHANGED <<svcVars, stopVars, sigVars, fixedVars, errChan, runLocal, runErr,
                   closeCalls, cancelFunc, grpcServer, httpServer, gracefulWait,
                   panicked>>

\* RunRecv that does not block on an empty channel.
RunRecvNoBlock ==
    /\ ~panicked
    /\ runPC = "recv"
    /\ IF errChan # <<>>
       THEN runErr' = Head(errChan) /\ errChan' = Tail(errChan)
       ELSE runErr' = [src |-> "grpc", err |-> "nil"] /\ UNCHANGED errChan
    /\ runPC' = "wait"
    /\ UNCHANGED <<svcVars, stopVars, sigVars, fixedVars, grpcTask, httpTask,
                   runLocal, closeCalls, cancelFunc, grpcServer, httpServer,
                   gracefulWait, panicked>>

\* RunRecv that takes an outcome from the channel and drops its error.
RunRecvDropErr ==
    /\ ~panicked
    /\ runPC = "recv"
    /\ errChan # <<>>
    /\ runErr' = [src |-> Head(errChan).src, err |-> "nil"]
    /\ errChan' = Tail(errChan)
    /\ runPC' = "wait"
    /\ UNCHANGED <<svcVars, stopVars, sigVars, fixedVars, grpcTask, httpTask,
                   runLocal, closeCalls, cancelFunc, grpcServer, httpServer,
                   gracefulWait, panicked>>

\* RunRecv that empties the channel and keeps the last outcome it finds.
RunRecvDrain ==
    /\ ~panicked
    /\ runPC = "recv"
    /\ errChan # <<>>
    /\ runErr' = errChan[Len(errChan)]
    /\ errChan' = <<>>
    /\ runPC' = "wait"
    /\ UNCHANGED <<svcVars, stopVars, sigVars, fixedVars, grpcTask, httpTask,
                   runLocal, closeCalls, cancelFunc, grpcServer, httpServer,
                   gracefulWait, panicked>>

\* core.go:361: err = <-errChan.
RunRecv ==
    /\ ~panicked
    /\ runPC = "recv"
    /\ errChan # <<>>
    /\ runErr' = Head(errChan)
    /\ errChan' = Tail(errChan)
    /\ runPC' = "wait"
    /\ UNCHANGED <<svcVars, stopVars, sigVars, fixedVars, grpcTask, httpTask,
                   runLocal, closeCalls, cancelFunc, grpcServer, httpServer,
                   gracefulWait, panicked>>

\* Where Run goes once Wait has returned: into close(), or, with no closer
\* to call, to its return (core.go:364-366).
AfterWait == IF closers = 0 THEN "returned" ELSE "close"

\* RunWait that closes the gateway server before it waits.
RunWaitShutdown ==
    /\ ~panicked
    /\ runPC = "wait"
    /\ runPC' = IF gracefulWait = 0 THEN AfterWait ELSE "parked"
    /\ httpServer' = "closed"
    /\ UNCHANGED <<svcVars, taskVars, stopVars, sigVars, fixedVars, runLocal, runErr,
                   closeCalls, cancelFunc, grpcServer, gracefulWait, panicked>>

\* core.go:363: c.gracefulWait.Wait() returns at once on a zero counter,
\* otherwise Run parks as a waiter.
RunWait ==
    /\ ~panicked
    /\ runPC = "wait"
    /\ runPC' = IF gracefulWait = 0 THEN AfterWait ELSE "parked"
    /\ UNCHANGED <<svcVars, taskVars, stopVars, sigVars, fixedVars, runLocal, runErr,
                   closeCalls, cancelFunc, grpcServer, httpServer, gracefulWait,
                   panicked>>

\* core.go:363: the parked Wait, released by the Done that zeroed the
\* counter, resumes; the counter having been raised again is a panic.
RunWake ==
    /\ ~panicked
    /\ runPC = "woken"
    /\ IF gracefulWait = 0
       THEN runPC' = AfterWait /\ UNCHANGED panicked
       ELSE panicked' = TRUE /\ UNCHANGED runPC
    /\ UNCHANGED <<svcVars, taskVars, stopVars, sigVars, fixedVars, runLocal, runErr,
                   closeCalls, cancelFunc, grpcServer, httpServer, gracefulWait>>

\* RunClose that returns without calling the closers.
RunCloseSkip ==
    /\ ~panicked
    /\ runPC = "close"
    /\ runPC' = "returned"
    /\ UNCHANGED <<svcVars, taskVars, stopVars, sigVars, fixedVars, runErr, runLocal,
                   closeCalls, cancelFunc, grpcServer, httpServer, gracefulWait,
                   panicked>>

\* RunClose that also force-stops the RPC server.
RunCloseTeardown ==
    /\ ~panicked
    /\ runPC = "close"
    /\ closeCalls' = [closeCalls EXCEPT ![runLocal.i + 1] = @ + 1]
    /\ runLocal' = [runLocal EXCEPT !.i = @ + 1]
    /\ runPC' = IF runLocal.i + 1 = closers THEN "returned" ELSE "close"
    /\ grpcServer' = "stopped"
    /\ UNCHANGED <<svcVars, taskVars, stopVars, sigVars, fixedVars, runErr,
                   cancelFunc, httpServer, gracefulWait, panicked>>

\* core.go:364-366 with close (369-376): one iteration of the closer loop;
\* after the last one Run returns err.
RunClose ==
    /\ ~panicked
    /\ runPC = "close"
    /\ closeCalls' = [closeCalls EXCEPT ![runLocal.i + 1] = @ + 1]
    /\ runLocal' = [runLocal EXCEPT !.i = @ + 1]
    /\ runPC' = IF runLocal.i + 1 = closers THEN "returned" ELSE "close"
    /\ UNCHANGED <<svcVars, taskVars, stopVars, sigVars, fixedVars, runErr,
                   cancelFunc, grpcServer, httpServer, gracefulWait, panicked>>

\* ------------------------------------------------------ transport tasks
\* core.go:351: errChan := make(chan error, 2).
ErrChanCap == 2

\* A send on a channel with room for one value only.
SendCapOne(src, e) ==
    /\ Len(errChan) < 1
    /\ errChan' = Append(errChan, [src |-> src, err |-> e])

\* core.go:354, 358: errChan <- outcome; a send on a full channel blocks.
Send(src, e) ==
    /\ Len(errChan) < ErrChanCap
    /\ errChan' = Append(errChan, [src |-> src, err |-> e])

\* core.go:353-355 with runGRPC (311-325): net.Listen fails, or Serve finds
\* the server already stopped, or the server starts serving.
GRPCStart ==
    /\ ~panicked
    /\ grpcTask = "spawned"
    /\ \/ /\ Send("grpc", "ErrListen")
          /\ grpcTask' = "returned"
       \/ /\ grpcServer # "ready"
          /\ Send("grpc", "ErrServerStopped")
          /\ grpcTask' = "returned"
       \/ /\ grpcServer = "ready"
          /\ grpcTask' = "serving"
          /\ UNCHANGED errChan
    /\ UNCHANGED <<svcVars, runVars, stopVars, sigVars, fixedVars, httpTask,
                   grpcServer, httpServer, gracefulWait, panicked>>

\* core.go:324, 354: Serve returns nil once the server is stopped or
\* draining, or an error when accepting fails at runtime.
GRPCServeReturn ==
    /\ ~panicked
    /\ grpcTask = "serving"
    /\ \/ /\ grpcServer # "ready"
          /\ Send("grpc", "nil")
       \/ /\ grpcServer = "ready"
          /\ Send("grpc", "ErrServe")
    /\ grpcTask' = "returned"
    /\ UNCHANGED <<svcVars, runVars, stopVars, sigVars, fixedVars, httpTask,
                   grpcServer, httpServer, gracefulWait, panicked>>

\* core.go:357-359 with runHTTP (267-269): ListenAndServe fails to listen,
\* or finds the server shut down, or starts serving.
HTTPStart ==
    /\ ~panicked
    /\ httpTask = "spawned"
    /\ \/ /\ Send("http", "ErrListen")
          /\ httpTask' = "returned"
       \/ /\ httpServer # "ready"
          /\ Send("http", "ErrServerClosed")
          /\ httpTask' = "returned"
       \/ /\ httpServer = "ready"
          /\ httpTask' = "serving"
          /\ UNCHANGED errChan
    /\ UNCHANGED <<svcVars, runVars, stopVars, sigVars, fixedVars, grpcTask,
                   grpcServer, httpServer, gracefulWait, panicked>>

\* core.go:268, 358: ListenAndServe returns ErrServerClosed after Shutdown,
\* or an error when accepting fails at runtime.
HTTPServeReturn ==
    /\ ~panicked
    /\ httpTask = "serving"
    /\ \/ /\ httpServer # "ready"
          /\ Send("http", "ErrServerClosed")
       \/ /\ httpServer = "ready"
          /\ Send("http", "ErrServe")
    /\ httpTask' = "returned"
    /\ UNCHANGED <<svcVars, runVars, stopVars, sigVars, fixedVars, grpcTask,
                   grpcServer, httpServer, gracefulWait, panicked>>

\* AfterFail that ignores the configured health-check wait.
AfterFailNoSleep == "stop"

\* ----------------------------------------------------------------- Stop
\* Position of Stop after the FailCheck loop (core.go:400) and after the
\* per-service Stop loop (core.go:430).
AfterFail == IF config.wait THEN "sleep" ELSE "stop"
AfterSvcStop == "defer"

\* LoopOr of a loop whose body is entered before its bound is tested.
LoopOrAlways(loop, after) == loop

\* Position at the head of a loop over c.svc, or past it when c.svc is empty.
LoopOr(loop, after) == IF Len(svc) = 0 THEN after ELSE loop

\* Enter with the FailCheck loop left out.
EnterSkipFail(s, d) ==
    /\ stopPC[s] = "idle"
    /\ gracefulWait' = gracefulWait + 1
    /\ ctxDone' = [ctxDone EXCEPT ![s] = (d <= 0)]
    /\ stopPC' = [stopPC EXCEPT ![s] = AfterFail]
    /\ stopIdx' = [stopIdx EXCEPT ![s] = 1]
    /\ UNCHANGED <<gsTask, shutTask, forced, stopRet>>

\* core.go:381-384: Add(1), then the timeout context is created; a zero or
\* negative duration gives a context that is done from the start.
Enter(s, d) ==
    /\ stopPC[s] = "idle"
    /\ gracefulWait' = gracefulWait + 1
    /\ ctxDone' = [ctxDone EXCEPT ![s] = (d <= 0)]
    /\ stopPC' = [stopPC EXCEPT ![s] = LoopOr("fail", AfterFail)]
    /\ stopIdx' = [stopIdx EXCEPT ![s] = 1]
    /\ UNCHANGED <<gsTask, shutTask, forced, stopRet>>

\* An explicit caller enters Stop(d).
StopAdd(s, d) ==
    /\ ~panicked
    /\ s # SignalStop
    /\ s = 1 \/ stopPC[s - 1] # "idle"
    /\ Enter(s, d)
    /\ UNCHANGED <<svcVars, runVars, taskVars, sigVars, fixedVars, grpcServer,
                   httpServer, panicked>>

\* StopFailCheck that leaves out a service whose health check already fails.
StopFailCheckOnce(s) ==
    /\ ~panicked
    /\ stopPC[s] = "fail"
    /\ failCalls' = [failCalls EXCEPT ![stopIdx[s]] =
                        IF svc[stopIdx[s]].fail /\ @ = 0 THEN @ + 1 ELSE @]
    /\ stopIdx' = [stopIdx EXCEPT ![s] = @ + 1]
    /\ stopPC' = [stopPC EXCEPT ![s] = IF stopIdx[s] = Len(svc) THEN AfterFail ELSE @]
    /\ UNCHANGED <<svc, setRet, stopCalls, runVars, taskVars, sigVars, fixedVars, stopRet, ctxDone,
                   gsTask, shutTask, forced, grpcServer, httpServer,
                   gracefulWait, panicked>>

\* StopFailCheck that leaves the loop after the first service it has told.
StopFailCheckBreak(s) ==
    /\ ~panicked
    /\ stopPC[s] = "fail"
    /\ failCalls' = [failCalls EXCEPT ![stopIdx[s]] =
                        IF svc[stopIdx[s]].fail THEN @ + 1 ELSE @]
    /\ stopIdx' = [stopIdx EXCEPT ![s] = @ + 1]
    /\ stopPC' = [stopPC EXCEPT ![s] =
                    IF stopIdx[s] = Len(svc) \/ svc[stopIdx[s]].fail
                    THEN AfterFail ELSE @]
    /\ UNCHANGED <<svc, setRet, stopCalls, runVars, taskVars, sigVars, fixedVars, stopRet,
                   ctxDone, gsTask, shutTask, forced, grpcServer, httpServer,
                   gracefulWait, panicked>>

\* core.go:394-398: one iteration of the FailCheck loop.
StopFailCheck(s) ==
    /\ ~panicked
    /\ stopPC[s] = "fail"
    /\ failCalls' = [failCalls EXCEPT ![stopIdx[s]] =
                        IF svc[stopIdx[s]].fail THEN @ + 1 ELSE @]
    /\ stopIdx' = [stopIdx EXCEPT ![s] = @ + 1]
    /\ stopPC' = [stopPC EXCEPT ![s] = IF stopIdx[s] = Len(svc) THEN AfterFail ELSE @]
    /\ UNCHANGED <<svc, setRet, stopCalls, runVars, taskVars, sigVars, fixedVars, stopRet, ctxDone,
                   gsTask, shutTask, forced, grpcServer, httpServer,
                   gracefulWait, panicked>>

\* core.go:400-405: the configured health-check wait has been slept.
StopSleep(s) ==
    /\ ~panicked
    /\ stopPC[s] = "sleep"
    /\ stopPC' = [stopPC EXCEPT ![s] = "stop"]
    /\ UNCHANGED <<svcVars, runVars, taskVars, sigVars, fixedVars, stopRet, stopIdx, ctxDone,
                   gsTask, shutTask, forced, grpcServer, httpServer,
                   gracefulWait, panicked>>

\* StopTransports that returns at once, without Done, when the RPC handle
\* is nil.
StopTransportsEarlyReturn(s) ==
    /\ ~panicked
    /\ stopPC[s] = "stop"
    /\ shutTask' = IF httpServer # "nil" /\ shutTask = "none" THEN "spawned" ELSE shutTask
    /\ IF grpcServer # "nil"
       THEN /\ gsTask' = [gsTask EXCEPT ![s] = "waiting"]
            /\ grpcServer' = IF grpcServer = "stopped" THEN "stopped" ELSE "draining"
            /\ stopPC' = [stopPC EXCEPT ![s] = "timed"]
            /\ UNCHANGED <<stopIdx, ctxDone, watcher, stopRet>>
       ELSE /\ stopPC' = [stopPC EXCEPT ![s] = "returned"]
            /\ stopRet' = [stopRet EXCEPT ![s] = "nil"]
            /\ stopIdx' = [stopIdx EXCEPT ![s] = 1]
            /\ ctxDone' = [ctxDone EXCEPT ![s] = FALSE]
            /\ watcher' = IF s = SignalStop THEN "exited" ELSE watcher
            /\ UNCHANGED <<gsTask, grpcServer>>
    /\ UNCHANGED <<svcVars, runVars, taskVars, signals, fixedVars, forced,
                   httpServer, gracefulWait, panicked>>

\* StopTransports that, with the RPC handle nil, goes straight to the
\* deferred calls and leaves out the per-service Stop loop.
StopTransportsSkipServices(s) ==
    /\ ~panicked
    /\ stopPC[s] = "stop"
    /\ shutTask' = IF httpServer # "nil" /\ shutTask = "none" THEN "spawned" ELSE shutTask
    /\ IF grpcServer # "nil"
       THEN /\ gsTask' = [gsTask EXCEPT ![s] = "waiting"]
            /\ grpcServer' = IF grpcServer = "stopped" THEN "stopped" ELSE "draining"
            /\ stopPC' = [stopPC EXCEPT ![s] = "timed"]
            /\ UNCHANGED stopIdx
            /\ UNCHANGED ctxDone
       ELSE /\ stopPC' = [stopPC EXCEPT ![s] = AfterSvcStop]
            /\ stopIdx' = [stopIdx EXCEPT ![s] = 1]
            /\ ctxDone' = [ctxDone EXCEPT ![s] = FALSE]
            /\ UNCHANGED <<gsTask, grpcServer>>
    /\ UNCHANGED <<svcVars, runVars, taskVars, sigVars, fixedVars, stopRet, forced,
                   httpServer, gracefulWait, panicked>>

\* StopTransports that leaves the RPC server alone when an earlier
\* invocation has already stopped it.
StopTransportsDedup(s) ==
    /\ ~panicked
    /\ stopPC[s] = "stop"
    /\ shutTask' = IF httpServer # "nil" /\ shutTask = "none" THEN "spawned" ELSE shutTask
    /\ IF grpcServer \notin {"nil", "stopped"}
       THEN /\ gsTask' = [gsTask EXCEPT ![s] = "waiting"]
            /\ grpcServer' = "draining"
            /\ stopPC' = [stopPC EXCEPT ![s] = "timed"]
            /\ UNCHANGED stopIdx
            /\ UNCHANGED ctxDone
       ELSE /\ stopPC' = [stopPC EXCEPT ![s] = LoopOr("svcstop", AfterSvcStop)]
            /\ stopIdx' = [stopIdx EXCEPT ![s] = 1]
            /\ ctxDone' = [ctxDone EXCEPT ![s] = FALSE]
            /\ UNCHANGED <<gsTask, grpcServer>>
    /\ UNCHANGED <<svcVars, runVars, taskVars, sigVars, fixedVars, stopRet, forced,
                   httpServer, gracefulWait, panicked>>

\* StopTransports that calls Shutdown itself and goes on only when it has
\* returned.
StopTransportsSyncShutdown(s) ==
    /\ ~panicked
    /\ stopPC[s] = "stop"
    /\ IF httpServer # "nil" /\ shutTask = "none"
       THEN /\ shutTask' = "spawned"
            /\ UNCHANGED <<stopPC, stopIdx, ctxDone, gsTask, grpcServer>>
       ELSE /\ httpServer = "nil" \/ shutTask = "done"
            /\ UNCHANGED shutTask
            /\ IF grpcServer # "nil"
               THEN /\ gsTask' = [gsTask EXCEPT ![s] = "waiting"]
                    /\ grpcServer' = IF grpcServer = "stopped" THEN "stopped" ELSE "draining"
                    /\ stopPC' = [stopPC EXCEPT ![s] = "timed"]
                    /\ UNCHANGED <<stopIdx, ctxDone>>
               ELSE /\ stopPC' = [stopPC EXCEPT ![s] = LoopOr("svcstop", AfterSvcStop)]
                    /\ stopIdx' = [stopIdx EXCEPT ![s] = 1]
                    /\ ctxDone' = [ctxDone EXCEPT ![s] = FALSE]
                    /\ UNCHANGED <<gsTask, grpcServer>>
    /\ UNCHANGED <<svcVars, runVars, taskVars, sigVars, fixedVars, stopRet, forced,
                   httpServer, gracefulWait, panicked>>

\* core.go:409-419 with timedCall (433-438).  When the gateway handle is
\* set, Shutdown is started on a goroutine of its own.  When the RPC handle
\* is set, GracefulStop is started on a goroutine of its own and stops the
\* server accepting; otherwise the graceful and the forced stop are skipped.
StopTransports(s) ==
    /\ ~panicked
    /\ stopPC[s] = "stop"
    /\ shutTask' = IF httpServer # "nil" /\ shutTask = "none" THEN "spawned" ELSE shutTask
    /\ IF grpcServer # "nil"
       THEN /\ gsTask' = [gsTask EXCEPT ![s] = "waiting"]
            /\ grpcServer' = IF grpcServer = "stopped" THEN "stopped" ELSE "draining"
            /\ stopPC' = [stopPC EXCEPT ![s] = "timed"]
            /\ UNCHANGED stopIdx
            /\ UNCHANGED ctxDone
       ELSE /\ stopPC' = [stopPC EXCEPT ![s] = LoopOr("svcstop", AfterSvcStop)]
            /\ stopIdx' = [stopIdx EXCEPT ![s] = 1]
            /\ ctxDone' = [ctxDone EXCEPT ![s] = FALSE]
            /\ UNCHANGED <<gsTask, grpcServer>>
    /\ UNCHANGED <<svcVars, runVars, taskVars, sigVars, fixedVars, stopRet, forced,
                   httpServer, gracefulWait, panicked>>

\* timedCall whose select has no case for the context.
timedCallWaitsDone(s) ==
    /\ ~panicked
    /\ stopPC[s] = "timed"
    /\ gsTask[s] = "done"
    /\ stopPC' = [stopPC EXCEPT ![s] = "force"]
    /\ ctxDone' = [ctxDone EXCEPT ![s] = FALSE]
    /\ UNCHANGED <<svcVars, runVars, taskVars, sigVars, fixedVars, stopRet, stopIdx,
                   gsTask, shutTask, forced, grpcServer, httpServer,
                   gracefulWait, panicked>>

\* timedCall that, when the context is done first, cancels the operation.
timedCallCancel(s) ==
    /\ ~panicked
    /\ stopPC[s] = "timed"
    /\ gsTask[s] = "done" \/ ctxDone[s]
    /\ stopPC' = [stopPC EXCEPT ![s] = "force"]
    /\ ctxDone' = [ctxDone EXCEPT ![s] = FALSE]
    /\ gsTask' = [gsTask EXCEPT ![s] = IF @ = "done" THEN @ ELSE "cancelled"]
    /\ UNCHANGED <<svcVars, runVars, taskVars, sigVars, fixedVars, stopRet, stopIdx,
                   shutTask, forced, grpcServer, httpServer,
                   gracefulWait, panicked>>

\* timedCall (core.go:440-445): the select returns when done is closed or
\* the context is done.  Stop does not read the context again: its flag is
\* kept only up to here.
timedCall(s) ==
    /\ ~panicked
    /\ stopPC[s] = "timed"
    /\ gsTask[s] = "done" \/ ctxDone[s]
    /\ stopPC' = [stopPC EXCEPT ![s] = "force"]
    /\ ctxDone' = [ctxDone EXCEPT ![s] = FALSE]
    /\ UNCHANGED <<svcVars, runVars, taskVars, sigVars, fixedVars, stopRet, stopIdx,
                   gsTask, shutTask, forced, grpcServer, httpServer,
                   gracefulWait, panicked>>

\* StopForce that stops the server only when the graceful stop has not
\* completed.
StopForceOnTimeout(s) ==
    /\ ~panicked
    /\ stopPC[s] = "force"
    /\ grpcServer' = "stopped"
    /\ forced' = [forced EXCEPT ![s] = (gsTask[s] # "done")]
    /\ gsTask' = [gsTask EXCEPT ![s] = "done"]
    /\ stopPC' = [stopPC EXCEPT ![s] = LoopOr("svcstop", AfterSvcStop)]
    /\ stopIdx' = [stopIdx EXCEPT ![s] = 1]
    /\ UNCHANGED <<svcVars, runVars, taskVars, sigVars, fixedVars, stopRet, ctxDone,
                   shutTask, httpServer, gracefulWait, panicked>>

\* StopForce that also resets c.grpcServer to nil.
StopForceClearHandle(s) ==
    /\ ~panicked
    /\ stopPC[s] = "force"
    /\ grpcServer' = "nil"
    /\ forced' = [forced EXCEPT ![s] = TRUE]
    /\ gsTask' = [gsTask EXCEPT ![s] = "done"]
    /\ stopPC' = [stopPC EXCEPT ![s] = LoopOr("svcstop", AfterSvcStop)]
    /\ stopIdx' = [stopIdx EXCEPT ![s] = 1]
    /\ UNCHANGED <<svcVars, runVars, taskVars, sigVars, fixedVars, stopRet, ctxDone,
                   shutTask, httpServer, gracefulWait, panicked>>

\* StopForce followed at once by gracefulWait.Done(), ahead of the
\* per-service Stop loop.
StopForceDone(s) ==
    /\ ~panicked
    /\ stopPC[s] = "force"
    /\ grpcServer' = "stopped"
    /\ forced' = [forced EXCEPT ![s] = TRUE]
    /\ gsTask' = [gsTask EXCEPT ![s] = "done"]
    /\ stopPC' = [stopPC EXCEPT ![s] = LoopOr("svcstop", AfterSvcStop)]
    /\ stopIdx' = [stopIdx EXCEPT ![s] = 1]
    /\ gracefulWait' = gracefulWait - 1
    /\ runPC' = IF runPC = "parked" /\ gracefulWait = 1 THEN "woken" ELSE runPC
    /\ UNCHANGED <<svcVars, runLocal, runErr, closeCalls, cancelFunc, taskVars,
                   sigVars, fixedVars, stopRet, ctxDone, shutTask, httpServer,
                   panicked>>

\* StopForce that leaves out the call of grpcServer.Stop().
StopForceNoop(s) ==
    /\ ~panicked
    /\ stopPC[s] = "force"
    /\ stopPC' = [stopPC EXCEPT ![s] = LoopOr("svcstop", AfterSvcStop)]
    /\ stopIdx' = [stopIdx EXCEPT ![s] = 1]
    /\ UNCHANGED <<svcVars, runVars, taskVars, sigVars, fixedVars, stopRet, ctxDone,
                   gsTask, forced, shutTask, grpcServer, httpServer, gracefulWait,
                   panicked>>

\* core.go:420: c.grpcServer.Stop(); the GracefulStop this invocation
\* started returns with it.
StopForce(s) ==
    /\ ~panicked
    /\ stopPC[s] = "force"
    /\ grpcServer' = "stopped"
    /\ forced' = [forced EXCEPT ![s] = TRUE]
    /\ gsTask' = [gsTask EXCEPT ![s] = "done"]
    /\ stopPC' = [stopPC EXCEPT ![s] = LoopOr("svcstop", AfterSvcStop)]
    /\ stopIdx' = [stopIdx EXCEPT ![s] = 1]
    /\ UNCHANGED <<svcVars, runVars, taskVars, sigVars, fixedVars, stopRet, ctxDone,
                   shutTask, httpServer, gracefulWait, panicked>>

\* StopSvcStop that leaves the loop after the first service it has stopped.
StopSvcStopBreak(s) ==
    /\ ~panicked
    /\ stopPC[s] = "svcstop"
    /\ stopCalls' = [stopCalls EXCEPT ![stopIdx[s]] =
                        IF svc[stopIdx[s]].stop THEN @ + 1 ELSE @]
    /\ stopIdx' = [stopIdx EXCEPT ![s] = @ + 1]
    /\ stopPC' = [stopPC EXCEPT ![s] =
                    IF stopIdx[s] = Len(svc) \/ svc[stopIdx[s]].stop
                    THEN AfterSvcStop ELSE @]
    /\ UNCHANGED <<svc, setRet, failCalls, runVars, taskVars, sigVars, fixedVars, stopRet,
                   ctxDone, gsTask, shutTask, forced, grpcServer, httpServer,
                   gracefulWait, panicked>>

\* StopSvcStop that probes for CBGracefulStopper where the code probes for
\* CBStopper.
StopSvcStopByFail(s) ==
    /\ ~panicked
    /\ stopPC[s] = "svcstop"
    /\ stopCalls' = [stopCalls EXCEPT ![stopIdx[s]] =
                        IF svc[stopIdx[s]].fail THEN @ + 1 ELSE @]
    /\ stopIdx' = [stopIdx EXCEPT ![s] = @ + 1]
    /\ stopPC' = [stopPC EXCEPT ![s] = IF stopIdx[s] = Len(svc) THEN AfterSvcStop ELSE @]
    /\ UNCHANGED <<svc, setRet, failCalls, runVars, taskVars, sigVars, fixedVars, stopRet, ctxDone,
                   gsTask, shutTask, forced, grpcServer, httpServer,
                   gracefulWait, panicked>>

\* core.go:423-428: one iteration of the per-service Stop loop.
StopSvcStop(s) ==
    /\ ~panicked
    /\ stopPC[s] = "svcstop"
    /\ stopCalls' = [stopCalls EXCEPT ![stopIdx[s]] =
                        IF svc[stopIdx[s]].stop THEN @ + 1 ELSE @]
    /\ stopIdx' = [stopIdx EXCEPT ![s] = @ + 1]
    /\ stopPC' = [stopPC EXCEPT ![s] = IF stopIdx[s] = Len(svc) THEN AfterSvcStop ELSE @]
    /\ UNCHANGED <<svc, setRet, failCalls, runVars, taskVars, sigVars, fixedVars, stopRet, ctxDone,
                   gsTask, shutTask, forced, grpcServer, httpServer,
                   gracefulWait, panicked>>

\* StopReturn that reports an error when it found no RPC server to stop.
StopReturnErr(s) ==
    /\ ~panicked
    /\ stopPC[s] = "defer"
    /\ gracefulWait' = gracefulWait - 1
    /\ runPC' = IF runPC = "parked" /\ gracefulWait = 1 THEN "woken" ELSE runPC
    /\ stopPC' = [stopPC EXCEPT ![s] = "returned"]
    /\ ctxDone' = [ctxDone EXCEPT ![s] = TRUE]
    /\ stopRet' = [stopRet EXCEPT ![s] =
                     IF gsTask[s] = "none" THEN "ErrNoServer" ELSE "nil"]
    /\ watcher' = IF s = SignalStop THEN "exited" ELSE watcher
    /\ UNCHANGED <<svcVars, runLocal, runErr, closeCalls, cancelFunc, taskVars,
                   signals, fixedVars, stopIdx, gsTask, shutTask, forced,
                   grpcServer, httpServer, panicked>>

\* StopReturn after which the watcher goes on ranging over its channel.
StopReturnRewatch(s) ==
    /\ ~panicked
    /\ stopPC[s] = "defer"
    /\ gracefulWait' = gracefulWait - 1
    /\ runPC' = IF runPC = "parked" /\ gracefulWait = 1 THEN "woken" ELSE runPC
    /\ stopPC' = [stopPC EXCEPT ![s] = "returned"]
    /\ ctxDone' = [ctxDone EXCEPT ![s] = TRUE]
    /\ stopRet' = [stopRet EXCEPT ![s] = "nil"]
    /\ watcher' = IF s = SignalStop THEN "watching" ELSE watcher
    /\ UNCHANGED <<svcVars, runLocal, runErr, closeCalls, cancelFunc, taskVars,
                   signals, fixedVars, stopIdx, gsTask, shutTask, forced,
                   grpcServer, httpServer, panicked>>

\* core.go:430 with the deferred calls in reverse order: the function of
\* 386-392 cancels the timeout context and calls c.cancelFunc when it is
\* set, then c.gracefulWait.Done() (382) runs and Stop returns nil.  The
\* Done that zeroes the counter releases a parked Wait.  The watcher leaves
\* its loop when its Stop has returned (initializers.go:205-206).
StopReturn(s) ==
    /\ ~panicked
    /\ stopPC[s] = "defer"
    /\ gracefulWait' = gracefulWait - 1
    /\ runPC' = IF runPC = "parked" /\ gracefulWait = 1 THEN "woken" ELSE runPC
    /\ stopPC' = [stopPC EXCEPT ![s] = "returned"]
    /\ ctxDone' = [ctxDone EXCEPT ![s] = TRUE]
    /\ stopRet' = [stopRet EXCEPT ![s] = "nil"]
    /\ watcher' = IF s = SignalStop THEN "exited" ELSE watcher
    /\ UNCHANGED <<svcVars, runLocal, runErr, closeCalls, cancelFunc, taskVars,
                   signals, fixedVars, stopIdx, gsTask, shutTask, forced,
                   grpcServer, httpServer, panicked>>

\* The deadline of the context made at core.go:384 passes.
DeadlineElapse(s) ==
    /\ ~panicked
    /\ stopPC[s] \in {"sleep", "timed"}
    /\ ~ctxDone[s]
    /\ ctxDone' = [ctxDone EXCEPT ![s] = TRUE]
    /\ UNCHANGED <<svcVars, runVars, taskVars, sigVars, fixedVars, stopRet, stopPC, stopIdx,
                   gsTask, shutTask, forced, grpcServer, httpServer,
                   gracefulWait, panicked>>

\* core.go:436-437: GracefulStop returns (in-flight work has ended, or the
\* server was stopped) and done is closed.
GracefulStop(s) ==
    /\ ~panicked
    /\ gsTask[s] = "waiting"
    /\ gsTask' = [gsTask EXCEPT ![s] = "done"]
    /\ grpcServer' = "stopped"
    /\ UNCHANGED <<svcVars, runVars, taskVars, sigVars, fixedVars, stopRet, stopPC, stopIdx,
                   ctxDone, shutTask, forced, httpServer, gracefulWait,
                   panicked>>

\* core.go:410-415: a goroutine calls Shutdown, which closes the gateway
\* listeners; further Shutdown calls find them closed.
Shutdown ==
    /\ ~panicked
    /\ shutTask = "spawned"
    /\ shutTask' = "done"
    /\ httpServer' = "closed"
    /\ UNCHANGED <<svcVars, runVars, taskVars, sigVars, fixedVars, stopRet, stopPC, stopIdx,
                   ctxDone, gsTask, forced, grpcServer, gracefulWait,
                   panicked>>

\* ------------------------------------------------------- signal watcher
\* A termination signal is delivered to the process while the watcher is
\* in its loop; signal.Notify puts it into the channel of capacity 1
\* (initializers.go:199-200) and drops it when the channel is full.
Signal ==
    /\ ~panicked
    /\ watcher = "watching"
    /\ signals = 0
    /\ signals' = 1
    /\ UNCHANGED <<svcVars, runVars, taskVars, stopVars, fixedVars, watcher,
                   grpcServer, httpServer, gracefulWait, panicked>>

\* initializers.go:202-204: the watcher receives a signal and enters
\* c.Stop(dur) with the duration processConfig gave it (core.go:108-113).
signalWatcher ==
    /\ ~panicked
    /\ watcher = "watching"
    /\ signals > 0
    /\ signals' = signals - 1
    /\ watcher' = "stopping"
    /\ Enter(SignalStop, sigDur)
    /\ UNCHANGED <<svcVars, runVars, taskVars, fixedVars, grpcServer, httpServer,
                   panicked>>

\* A termination signal is delivered after the watcher has left its loop:
\* signal.Notify (initializers.go:200) is never undone, so the signal is
\* put into the channel, which nothing receives from any more.
LateSignal ==
    /\ ~panicked
    /\ watcher # "watching"
    /\ signals = 0
    /\ signals' = 1
    /\ UNCHANGED <<svcVars, runVars, taskVars, stopVars, fixedVars, watcher,
                   grpcServer, httpServer, gracefulWait, panicked>>

\* ----------------------------------------------------------------- Next
\* Every step of Run, Stop, the transports and the watcher.
Lifecycle ==
    \/ RunInitGRPC
    \/ RunInitHTTP
    \/ RunSpawn
    \/ RunRecv
    \/ RunWait
    \/ RunWake
    \/ RunClose
    \/ GRPCStart
    \/ GRPCServeReturn
    \/ HTTPStart
    \/ HTTPServeReturn
    \/ \E s \in StopIds, d \in Durations : StopAdd(s, d)
    \/ \E s \in StopIds : StopFailCheck(s)
    \/ \E s \in StopIds : StopSleep(s)
    \/ \E s \in StopIds : StopTransports(s)
    \/ \E s \in StopIds : timedCall(s)
    \/ \E s \in StopIds : StopForce(s)
    \/ \E s \in StopIds : StopSvcStop(s)
    \/ \E s \in StopIds : StopReturn(s)
    \/ \E s \in StopIds : DeadlineElapse(s)
    \/ \E s \in StopIds : GracefulStop(s)
    \/ Shutdown
    \/ Signal
    \/ signalWatcher

Next ==
    \/ \E k \in ServiceKinds : SetService(k)
    \/ Lifecycle

Spec == Init /\ [][Next]_vars

\* A supervisor with one service registered and the health-check wait
\* configured (HealthcheckWaitDurationInSeconds is 7 by default).
LiveInit == Created(<<Graceful>>, {TRUE})

\* Scheduling: every goroutine that can take a step of the program takes
\* it; the deadline of a timeout context passes; a stopped server lets
\* Serve, ListenAndServe and GracefulStop return.  Nothing makes a caller
\* call Run or Stop, a signal arrive, a transport fail or in-flight work
\* end.
Fairness ==
    /\ WF_vars(RunInitHTTP) /\ WF_vars(RunSpawn) /\ WF_vars(RunRecv)
    /\ WF_vars(RunWait) /\ WF_vars(RunWake) /\ WF_vars(RunClose)
    /\ WF_vars(GRPCStart) /\ WF_vars(HTTPStart)
    /\ WF_vars(grpcServer # "ready" /\ GRPCServeReturn)
    /\ WF_vars(httpServer # "ready" /\ HTTPServeReturn)
    /\ WF_vars(Shutdown) /\ WF_vars(signalWatcher)
    /\ \A s \in StopIds :
        /\ WF_vars(StopFailCheck(s)) /\ WF_vars(StopSleep(s))
        /\ WF_vars(StopTransports(s)) /\ WF_vars(timedCall(s))
        /\ WF_vars(StopForce(s)) /\ WF_vars(StopSvcStop(s))
        /\ WF_vars(StopReturn(s)) /\ WF_vars(DeadlineElapse(s))
        /\ WF_vars(grpcServer = "stopped" /\ GracefulStop(s))

LiveSpec == LiveInit /\ [][Lifecycle]_vars /\ Fairness

\* A supervisor in the state Run reaches when both transports have been
\* constructed and started and both accept work: one service registered and
\* bound, Run blocked on the channel (core.go:361), no Stop entered, no
\* signal delivered.
RunningWith(reg) ==
    /\ svc = reg
    /\ setRet = "nil"
    /\ config \in DefaultConfigs(BOOLEAN)
    /\ sigDur = SignalDuration(config.shutdown)
    /\ closers = MaxClosers
    /\ closeCalls = [j \in 1..closers |-> 0]
    /\ grpcServer = "ready"
    /\ httpServer = "ready"
    /\ cancelFunc = "set"
    /\ gracefulWait = 0
    /\ errChan = <<>>
    /\ runPC = "recv"
    /\ runLocal = [grpc |-> Len(reg), http |-> Len(reg), i |-> 0,
                   log |-> BinderCalls("InitGRPC", 0) \o BinderCalls("InitHTTP", 0)]
    /\ runErr = [src |-> "none", err |-> "nil"]
    /\ grpcTask = "serving"
    /\ httpTask = "serving"
    /\ stopPC = [s \in StopIds |-> "idle"]
    /\ stopIdx = [s \in StopIds |-> 0]
    /\ ctxDone = [s \in StopIds |-> FALSE]
    /\ gsTask = [s \in StopIds |-> "none"]
    /\ shutTask = "none"
    /\ forced = [s \in StopIds |-> FALSE]
    /\ stopRet = [s \in StopIds |-> "none"]
    /\ failCalls = [i \in 1..Len(reg) |-> 0]
    /\ stopCalls = [i \in 1..Len(reg) |-> 0]
    /\ watcher = "watching"
    /\ signals = 0
    /\ panicked = FALSE

RunningInit == RunningWith(<<Graceful>>)

\* The steps that remain once both transports serve.
Teardown ==
    \/ RunRecv
    \/ RunWait
    \/ RunWake
    \/ RunClose
    \/ GRPCServeReturn
    \/ HTTPServeReturn
    \/ \E s \in StopIds, d \in Durations : StopAdd(s, d)
    \/ \E s \in StopIds : StopFailCheck(s)
    \/ \E s \in StopIds : StopSleep(s)
    \/ \E s \in StopIds : StopTransports(s)
    \/ \E s \in StopIds : timedCall(s)
    \/ \E s \in StopIds : StopForce(s)
    \/ \E s \in StopIds : StopSvcStop(s)
    \/ \E s \in StopIds : StopReturn(s)
    \/ \E s \in StopIds : DeadlineElapse(s)
    \/ \E s \in StopIds : GracefulStop(s)
    \/ Shutdown
    \/ Signal
    \/ signalWatcher

RunningSpec == RunningInit /\ [][Teardown]_vars

\* The running supervisor with two services registered, each with any
\* combination of the two optional interfaces.
CapabilityInit ==
    \E a \in CapabilityKinds, b \in CapabilityKinds : RunningWith(<<a, b>>)

CapabilitySpec == CapabilityInit /\ [][Teardown]_vars

\* The supervisor created from any configuration of the signal handler,
\* with one service registered and the health-check wait configured.
ConfigInit ==
    CreatedWith(<<Graceful>>,
                [wait : {TRUE}, disable : BOOLEAN, shutdown : ShutdownSeconds])

ConfigSpec == ConfigInit /\ [][Lifecycle]_vars

\* The running supervisor with signals delivered at any time.
SignalNext ==
    \/ Teardown
    \/ LateSignal

SignalSpec == RunningInit /\ [][SignalNext]_vars

\* The supervisor with SetService called with any argument, nil included.
RegistryNext ==
    \/ \E k \in ServiceKinds \cup {NilService} : SetService(k)
    \/ Lifecycle

RegistrySpec == Init /\ [][RegistryNext]_vars

\* ======================================================== properties

\* Some closer has been called.
CloserInvoked == \E j \in 1..closers : closeCalls[j] > 0

\* Stop invocations entered so far.
Entered == {s \in StopIds : stopPC[s] # "idle"}

\* C1: neither transport task is started, and neither transport accepts
\* work, before InitGRPC and InitHTTP have returned without error for every
\* registered service.
C1_BoundBeforeTransports ==
    (grpcTask # "none" \/ httpTask # "none" \/ GRPCAccepting \/ HTTPAccepting)
        => /\ runLocal.grpc = Len(svc)
           /\ runLocal.http = Len(svc)
           /\ grpcServer # "nil"
           /\ httpServer # "nil"

C1_Witness == Len(svc) = MaxSvc /\ GRPCAccepting /\ HTTPAccepting

\* C2: whenever Run calls a closer, the gracefulWait count is zero and no
\* Stop invocation is between its Add and its Done.
C2_NoCloseDuringStop ==
    [][(closeCalls' # closeCalls)
         => (gracefulWait = 0 /\ \A s \in StopIds : ~InFlight(s))]_vars

\* C3 as claimed: a closer has been called only when both transport tasks
\* have returned.
C3_CloseAfterBothTasks ==
    CloserInvoked => (grpcTask = "returned" /\ httpTask = "returned")

\* C3 as amended: a closer has been called only when some transport task
\* has returned and Run has read a task's outcome from errChan.
C3_CloseAfterFirstTask ==
    CloserInvoked => /\ grpcTask = "returned" \/ httpTask = "returned"
                     /\ runErr.src \in {"grpc", "http"}

C3_Witness == CloserInvoked /\ grpcTask = "returned" /\ HTTPAccepting

\* C4: when a Run that started the transports has returned, every closer
\* has been called exactly once; no closer is ever called twice.
C4_ClosersOnce ==
    /\ \A j \in 1..closers : closeCalls[j] <= 1
    /\ (runPC = "returned" /\ grpcTask # "none")
          => \A j \in 1..closers : closeCalls[j] = 1

C4_Witness ==
    /\ runPC = "returned"
    /\ closers > 0
    /\ \A j \in 1..closers : closeCalls[j] = 1
    /\ \A s \in StopIds : stopPC[s] = "returned"

\* C5: when the N Stop invocations made so far have all returned, every
\* service with FailCheck has received exactly N calls of it, every other
\* service none, and the gracefulWait count is zero.
C5_FailCheckPerStop ==
    (\A s \in StopIds : ~InFlight(s))
        => /\ gracefulWait = 0
           /\ \A i \in SvcIdx :
                failCalls[i] = IF svc[i].fail THEN Cardinality(Entered) ELSE 0

C5_Witness ==
    /\ \A s \in StopIds : stopPC[s] = "returned"
    /\ \E i \in SvcIdx : svc[i].fail /\ failCalls[i] = MaxStops + 1

\* C6: the gracefulWait count is never negative and equals the number of
\* Stop invocations that have entered and not yet returned.
C6_GateCountsStops ==
    /\ gracefulWait >= 0
    /\ gracefulWait = Cardinality({s \in StopIds : InFlight(s)})

C6_Witness ==
    /\ gracefulWait = 1
    /\ \E s \in StopIds : stopPC[s] = "returned" /\ ~forced[s]
    /\ \E s \in StopIds : InFlight(s)

\* Both transports accept work.
Running == GRPCAccepting /\ HTTPAccepting

\* C7: once a Stop invocation is under way on a running supervisor, with
\* its test of the transport handles still ahead, every Stop invocation
\* returns and Run returns.
C7_StopsAndRunReturn ==
    (Running /\ \E s \in StopIds : stopPC[s] \in {"fail", "sleep", "stop"})
        ~> (runPC = "returned" /\ \A s \in StopIds : ~InFlight(s))

\* C8: the select of timedCall can return as soon as done is closed or the
\* context is done, also when GracefulStop never returns, and it returns in
\* no other state.
C8_TimedCallRace ==
    /\ [](\A s \in StopIds :
            (stopPC[s] = "timed" /\ ~panicked /\ (gsTask[s] = "done" \/ ctxDone[s]))
                => ENABLED timedCall(s))
    /\ [][\A s \in StopIds :
            (stopPC[s] = "timed" /\ stopPC'[s] # "timed")
                => (gsTask[s] = "done" \/ ctxDone[s])]_vars

C8_Witness == \E s \in StopIds : stopPC[s] = "force" /\ gsTask[s] = "waiting"

\* Stop invocation s has left its FailCheck loop.
PastFail(s) == stopPC[s] \notin {"idle", "fail"}

\* C9: no graceful stop, forced stop or gateway close is begun before every
\* service with FailCheck has received a call, and every Stop invocation
\* has made its FailCheck call on each such service before it leaves the
\* loop for the gateway close and the graceful stop.
C9_FailCheckFirst ==
    /\ ((\E s \in StopIds : gsTask[s] # "none")
           \/ grpcServer \in {"draining", "stopped"}
           \/ shutTask # "none")
          => \A i \in SvcIdx : svc[i].fail => failCalls[i] >= 1
    /\ \A i \in SvcIdx :
          svc[i].fail =>
            failCalls[i] = Cardinality({s \in StopIds :
                              PastFail(s) \/ (stopPC[s] = "fail" /\ stopIdx[s] > i)})

C9_Witness ==
    /\ Len(svc) = MaxSvc
    /\ \E i \in SvcIdx : svc[i].fail
    /\ \E s \in StopIds : gsTask[s] = "waiting" /\ shutTask = "spawned"

\* C10: a Stop invocation that started the graceful stop calls
\* grpcServer.Stop() once timedCall has returned, and not before; it never
\* gets past that point without having called it.
C10_ForcedAfterGraceful ==
    \A s \in StopIds :
        /\ (gsTask[s] # "none" /\ stopPC[s] \in {"svcstop", "defer", "returned"})
              => (forced[s] /\ grpcServer = "stopped")
        /\ forced[s] => (gsTask[s] # "none" /\ stopPC[s] \notin {"timed", "force"})

C10_Witness == \E s \in StopIds : stopPC[s] = "returned" /\ forced[s]

\* Stop invocation s has reached its per-service Stop loop or is past it.
InSvcStop(s) == stopPC[s] \in {"svcstop", "defer", "returned"}

\* Stop invocations that have made their Stop() call on service i, if it
\* has one: the loop runs over c.svc in registration order.
SvcStopCount(i) ==
    Cardinality({s \in StopIds :
        stopPC[s] \in {"defer", "returned"} \/ (stopPC[s] = "svcstop" /\ stopIdx[s] > i)})

\* Each service has received one Stop() from every invocation whose loop
\* has passed it, and none if it has no Stop().
SvcStopInOrder ==
    \A i \in SvcIdx : stopCalls[i] = IF svc[i].stop THEN SvcStopCount(i) ELSE 0

\* C11 as claimed: each Stop invocation calls Stop() once on every service
\* that has it, in registration order, and whenever an invocation is
\* making or has made these calls the RPC server has been force-stopped.
C11_SvcStopAfterForce ==
    /\ SvcStopInOrder
    /\ \A s \in StopIds :
          (InSvcStop(s) /\ \E i \in SvcIdx : svc[i].stop) => grpcServer = "stopped"

\* C11 as amended: each Stop invocation calls Stop() once on every service
\* that has it, in registration order; an invocation that found the RPC
\* handle set makes these calls after it has force-stopped the server.
C11_SvcStopAfterOwnForce ==
    /\ SvcStopInOrder
    /\ \A s \in StopIds :
          (InSvcStop(s) /\ gsTask[s] # "none") => (forced[s] /\ grpcServer = "stopped")

C11_Witness ==
    /\ Len(svc) = MaxSvc
    /\ \A i \in SvcIdx : svc[i].stop /\ stopCalls[i] = 1
    /\ \E s \in StopIds : stopPC[s] = "returned" /\ forced[s]

\* C12: a service with both FailCheck and Stop has received a FailCheck
\* before its first Stop(), and never more Stop() than FailCheck calls.
C12_FailCheckBeforeStop ==
    \A i \in SvcIdx :
        (svc[i].fail /\ svc[i].stop)
            => /\ stopCalls[i] > 0 => failCalls[i] > 0
               /\ stopCalls[i] <= failCalls[i]

C12_Witness ==
    /\ \A s \in StopIds : stopPC[s] = "returned"
    /\ Len(svc) = MaxSvc
    /\ \A i \in SvcIdx : svc[i].fail /\ svc[i].stop /\ stopCalls[i] = MaxStops + 1

\* The outcomes the transport tasks have written: the one Run has read and
\* those still in the channel.
Outcomes == {runErr} \cup {errChan[k] : k \in 1..Len(errChan)}

\* No transport has failed: no listen error, no runtime serve error.
NoFailure == \A m \in Outcomes : m.err \notin {"ErrListen", "ErrServe"}

\* C13: when a running supervisor is shut down by an explicit Stop alone
\* and no transport failed, Run returns nil.
C13_CleanStopRunNil ==
    (runPC = "returned" /\ Entered = StopIds \ {SignalStop} /\ NoFailure)
        => runErr.err = "nil"

C15_StopWithoutTransports ==
    /\ [](\A s \in StopIds :
            (InSvcStop(s) /\ gsTask[s] = "none")
                => /\ ~forced[s]
                   /\ \A i \in SvcIdx : svc[i].fail => failCalls[i] >= 1
                   /\ stopPC[s] = "returned"
                        => /\ stopRet[s] = "nil"
                           /\ \A i \in SvcIdx : svc[i].stop => stopCalls[i] >= 1)
    /\ [][\A s \in StopIds :
            (stopPC[s] = "stop" /\ stopPC'[s] # "stop"
                 /\ grpcServer = "nil" /\ httpServer = "nil")
                => /\ UNCHANGED <<grpcServer, httpServer, shutTask, gsTask, forced>>
                   /\ stopPC'[s] = LoopOr("svcstop", AfterSvcStop)]_vars
    /\ [][\A s \in StopIds :
            /\ (stopPC[s] = "idle" /\ stopPC'[s] # "idle")
                  => gracefulWait' = gracefulWait + 1
            /\ (stopPC[s] # "returned" /\ stopPC'[s] = "returned")
                  => gracefulWait' = gracefulWait - 1]_vars

C15_Witness ==
    /\ grpcServer = "nil"
    /\ httpServer = "nil"
    /\ gracefulWait = 0
    /\ Len(svc) = MaxSvc
    /\ \A i \in SvcIdx : svc[i].stop /\ stopCalls[i] = 1
    /\ \E s \in StopIds : stopRet[s] = "nil" /\ gsTask[s] = "none"

\* The RPC task has written a listen error.
GRPCListenFailed == [src |-> "grpc", err |-> "ErrListen"] \in Outcomes

\* Run has read an outcome from the channel.
RunHasRead == runPC \in {"wait", "parked", "woken", "close", "returned"}

\* C16 as claimed: when the RPC listen has failed and Run has returned, its
\* result is a non-nil error and it is not the gateway's outcome.
C16_ListenFailGatewayUnread ==
    (GRPCListenFailed /\ runPC = "returned")
        => (runErr.err # "nil" /\ runErr.src # "http")

\* C16 as amended: when the RPC listen has failed and Run has read an
\* outcome, that outcome is a non-nil error: the listen error if it came
\* from the RPC task, and otherwise the gateway's outcome, the listen error
\* staying unread in the channel.
C16_ListenFailRunNonNil ==
    (GRPCListenFailed /\ RunHasRead)
        => /\ runErr.err # "nil"
           /\ runErr.src = "grpc" => runErr.err = "ErrListen"
           /\ runErr.src = "http" => errChan = <<[src |-> "grpc", err |-> "ErrListen"]>>

C16_Witness ==
    /\ runPC = "returned"
    /\ runErr = [src |-> "grpc", err |-> "ErrListen"]
    /\ Len(errChan) = 1

\* Transport tasks that have returned.
ReturnedTasks ==
    (IF grpcTask = "returned" THEN {"grpc"} ELSE {}) \cup
    (IF httpTask = "returned" THEN {"http"} ELSE {})

\* C17: err of Run is assigned by a failed init call or by the one receive
\* from the channel, which takes the outcome written first; nothing else
\* ever takes an outcome from the channel; past the receive, Run holds the
\* outcome of a returned task and every other outcome is still in the
\* channel.
C17_ReadsFirstOutcomeOnce ==
    /\ [][runErr' # runErr
            => \/ runPC \in {"idle", "initHTTP"} /\ runErr'.src = "init"
               \/ /\ runPC = "recv" /\ runErr.src = "none" /\ errChan # <<>>
                  /\ runErr' = Head(errChan) /\ errChan' = Tail(errChan)]_vars
    /\ [][Len(errChan') < Len(errChan) => (runPC = "recv" /\ runPC' = "wait")]_vars
    /\ []((RunHasRead /\ runErr.src # "init")
            => /\ runErr.src \in ReturnedTasks
               /\ Len(errChan) + 1 = Cardinality(ReturnedTasks)
               /\ \A k \in 1..Len(errChan) : errChan[k].src # runErr.src)

C17_Witness ==
    /\ runPC = "returned"
    /\ runErr.src = "http"
    /\ Len(errChan) = 1

\* C18: Run holds a binder error exactly when a binder failed; it has then
\* returned with that error, no transport task exists, nothing was written
\* to or read from the channel, and the gateway server was not constructed.
C18_BindFailureAborts ==
    /\ runErr.src = "init"
          => /\ runPC = "returned"
             /\ grpcTask = "none" /\ httpTask = "none" /\ errChan = <<>>
             /\ httpServer = "nil"
             /\ \/ /\ runErr.err = "ErrInitGRPC"
                   /\ runLocal.grpc < Len(svc)
                   /\ grpcServer = "nil"
                \/ /\ runErr.err = "ErrInitHTTP"
                   /\ runLocal.grpc = Len(svc)
                   /\ runLocal.http < Len(svc)
    /\ (runPC # "idle" /\ runLocal.grpc < Len(svc)) => runErr.src = "init"
    /\ (runPC \notin {"idle", "initHTTP"} /\ runLocal.http < Len(svc))
          => runErr.src = "init"

C18_Witness ==
    /\ Len(svc) = MaxSvc
    /\ runErr = [src |-> "init", err |-> "ErrInitHTTP"]
    /\ runLocal.http = 1
    /\ \E s \in StopIds : stopPC[s] = "returned"

\* No Stop invocation has been entered.
NoStop == Entered = {}

\* C19 as claimed: when Run has returned after a transport ended and no
\* Stop was entered, the gateway server is closed and the RPC server stopped.
C19_OwnEndTearsDown ==
    (runPC = "returned" /\ runErr.src \in {"grpc", "http"} /\ NoStop)
        => (grpcServer = "stopped" /\ httpServer = "closed")

\* C19 as amended: as long as no Stop has been entered, no gateway close,
\* graceful stop or forced stop has been begun, whatever Run has done.
C19_TeardownOnlyInStop ==
    NoStop => /\ grpcServer \in {"nil", "ready"}
              /\ httpServer \in {"nil", "ready"}
              /\ shutTask = "none"
              /\ \A s \in StopIds : gsTask[s] = "none" /\ ~forced[s]

C19_Witness ==
    /\ runPC = "returned"
    /\ CloserInvoked
    /\ NoStop
    /\ grpcTask = "returned" /\ httpTask = "returned"
    /\ grpcServer = "ready" /\ httpServer = "ready"

\* C20: no step of Run from its receive on changes a server, a transport
\* task or a stop goroutine; with no Stop entered, both servers are as
\* constructed after Run has read an outcome.
C20_RunLeavesOtherTransport ==
    /\ [][(runPC \in {"recv", "wait", "parked", "woken", "close"} /\ runPC' # runPC)
            => UNCHANGED <<grpcServer, httpServer, grpcTask, httpTask,
                           shutTask, gsTask, forced>>]_vars
    /\ []((NoStop /\ RunHasRead /\ runErr.src # "init")
            => (grpcServer = "ready" /\ httpServer = "ready"))

C20_Witness ==
    /\ runPC = "returned"
    /\ NoStop
    /\ runErr = [src |-> "grpc", err |-> "ErrServe"]
    /\ HTTPAccepting

\* C21: the watcher's Stop is entered only by the watcher receiving a
\* signal while in its loop, with a positive duration; the watcher then
\* leaves the loop for good and has exited when its Stop has returned, so a
\* signal delivered later stays in the channel and starts no Stop.
C21_WatcherStopsOnce ==
    /\ [][(stopPC[SignalStop] = "idle" /\ stopPC'[SignalStop] # "idle")
            => /\ watcher = "watching" /\ signals > 0
               /\ watcher' = "stopping"
               /\ ~ctxDone'[SignalStop]]_vars
    /\ [][stopPC[SignalStop] # "idle" => stopPC'[SignalStop] # "idle"]_vars
    /\ [][watcher # "watching" => watcher' # "watching"]_vars
    /\ [][(watcher # "watching" /\ signals > 0) => signals' = signals]_vars
    /\ [](watcher = "exited" <=> stopPC[SignalStop] = "returned")

C21_Witness ==
    /\ watcher = "exited"
    /\ signals = 1
    /\ runPC = "returned"

\* C22: SetService changes the registry only by appending a non-nil
\* service at its end, returning nil; it returns ErrNoService only with
\* the registry left as it was; the registry holds no nil service and no
\* step removes or reorders an entry.
C22_SetServiceAppends ==
    /\ [][/\ svc' # svc
             => /\ Len(svc') = Len(svc) + 1
                /\ SubSeq(svc', 1, Len(svc)) = svc
                /\ svc'[Len(svc')] \in ServiceKinds
                /\ setRet' = "nil"
          /\ (setRet' # setRet /\ setRet' = "ErrNoService") => svc' = svc
          /\ (setRet' # setRet /\ setRet' = "nil") => svc' # svc]_vars
    /\ [](/\ setRet \in {"none", "nil", "ErrNoService"}
          /\ \A i \in SvcIdx : svc[i] \in ServiceKinds
          /\ setRet = "none" => svc = <<>>)

C22_Witness ==
    /\ setRet = "ErrNoService"
    /\ svc = <<Plain, Graceful>>
    /\ runPC = "returned"

\* C23: with no service registered, no init call fails and Run starts both
\* transport tasks; a Stop invocation is never in a loop over the services,
\* force-stops the RPC server it found and returns nil.
C23_EmptyRegistry ==
    Len(svc) = 0
        => /\ runErr.src # "init"
           /\ runPC \notin {"idle", "initHTTP", "spawn"}
                => (grpcTask # "none" /\ httpTask # "none")
           /\ \A s \in StopIds :
                /\ stopPC[s] \notin {"fail", "svcstop"}
                /\ stopPC[s] = "returned"
                     => /\ stopRet[s] = "nil"
                        /\ gsTask[s] # "none" => (forced[s] /\ grpcServer = "stopped")

C23_Witness ==
    /\ Len(svc) = 0
    /\ runPC = "returned"
    /\ grpcTask = "returned" /\ httpTask = "returned"
    /\ shutTask = "done"
    /\ \E s \in StopIds : stopRet[s] = "nil" /\ forced[s]

\* C24: when Run gets past gracefulWait.Wait(), every Stop invocation
\* entered so far has returned; an invocation that has returned has
\* force-stopped the RPC server it found, made its per-service Stop()
\* calls and cancelled its context; the counter is lowered only by the
\* last step of a Stop invocation.
C24_RunWaitsForStops ==
    /\ [][(runPC \in {"wait", "woken"} /\ runPC' \in {"close", "returned"})
            => \A s \in StopIds : ~InFlight(s)]_vars
    /\ [][gracefulWait' < gracefulWait
            => \E s \in StopIds : stopPC[s] = "defer" /\ stopPC'[s] = "returned"]_vars
    /\ [](\A s \in StopIds :
            stopPC[s] = "returned"
                => /\ ctxDone[s]
                   /\ gsTask[s] # "none" => forced[s]
                   /\ \A i \in SvcIdx : svc[i].stop => stopCalls[i] >= 1)

C24_Witness ==
    /\ runPC = "woken"
    /\ gracefulWait = 0
    /\ Len(svc) = MaxSvc
    /\ \A i \in SvcIdx : svc[i].stop /\ stopCalls[i] >= 1
    /\ \E s \in StopIds : stopPC[s] = "returned" /\ forced[s] /\ ctxDone[s]

\* C25: when the watcher's Stop, whose duration is positive, begins the
\* graceful stop, the deadline of its context has not passed.
C25_DeadlineFromAttempt ==
    [][(stopPC[SignalStop] = "stop" /\ stopPC'[SignalStop] = "timed")
         => ~ctxDone'[SignalStop]]_vars

\* C26: while Run is between initGRPC and initHTTP, no Stop invocation has
\* begun a graceful stop of the RPC server with the gateway handle nil.
C26_NoPartialPair ==
    \A s \in StopIds :
        (runPC = "initHTTP" /\ gsTask[s] # "none") => httpServer # "nil"

\* C27 as claimed: once some Stop invocation has returned, the RPC
\* transport does not accept work.
C27_NoServeAfterStop ==
    (\E s \in StopIds : stopPC[s] = "returned") => ~GRPCAccepting

\* C27 as amended: once a Stop invocation that found the RPC handle set has
\* returned, the RPC server is stopped and the transport does not accept
\* work.
C27_NoServeAfterEffectiveStop ==
    (\E s \in StopIds : stopPC[s] = "returned" /\ gsTask[s] # "none")
        => (grpcServer = "stopped" /\ ~GRPCAccepting)

C27_Witness ==
    /\ \E s \in StopIds : stopPC[s] = "returned" /\ gsTask[s] # "none"
    /\ [src |-> "grpc", err |-> "ErrServerStopped"] \in Outcomes
    /\ runPC = "returned"

\* C28: while both transports accept work, the watcher has not exited.
C28_SignalPathLive == Running => watcher # "exited"

\* C29: a Stop invocation comes to its sleep only with the wait configured
\* and straight from its FailCheck calls, all made; it comes to the gateway
\* close and the graceful stop from the sleep when the wait is configured
\* and straight from its FailCheck calls otherwise; these two are begun at
\* that point only.
C29_SleepBetweenFailAndStop ==
    /\ [][\A s \in StopIds :
            /\ (stopPC[s] # "sleep" /\ stopPC'[s] = "sleep")
                  => (config.wait /\ stopPC[s] \in {"idle", "fail"})
            /\ (stopPC[s] # "stop" /\ stopPC'[s] = "stop")
                  => IF config.wait THEN stopPC[s] = "sleep"
                                    ELSE stopPC[s] \in {"idle", "fail"}
            /\ (gsTask'[s] # gsTask[s] /\ gsTask[s] = "none")
                  => stopPC[s] = "stop"]_vars
    /\ [][(shutTask = "none" /\ shutTask' # "none")
            => \E s \in StopIds : stopPC[s] = "stop" /\ stopPC'[s] # "stop"]_vars
    /\ [](\A s \in StopIds :
            stopPC[s] \in {"sleep", "stop"}
                => \A i \in SvcIdx : svc[i].fail => failCalls[i] >= 1)

C29_Witness ==
    /\ config.wait
    /\ Len(svc) = MaxSvc
    /\ \A i \in SvcIdx : svc[i].fail /\ failCalls[i] = 1
    /\ \E s \in StopIds : stopPC[s] = "sleep"
    /\ Running

\* C30: whatever the state of the Shutdown goroutine, every step of Stop
\* but the sleep and the select of timedCall can be taken at once, and the
\* select as soon as done is closed or the context is done.
C30_StopNeverWaitsForShutdown ==
    \A s \in StopIds :
        ~panicked
            => /\ stopPC[s] = "fail" => ENABLED StopFailCheck(s)
               /\ stopPC[s] = "sleep" => ENABLED StopSleep(s)
               /\ stopPC[s] = "stop" => ENABLED StopTransports(s)
               /\ (stopPC[s] = "timed" /\ (gsTask[s] = "done" \/ ctxDone[s]))
                     => ENABLED timedCall(s)
               /\ stopPC[s] = "force" => ENABLED StopForce(s)
               /\ stopPC[s] = "svcstop" => ENABLED StopSvcStop(s)
               /\ stopPC[s] = "defer" => ENABLED StopReturn(s)

C30_Witness ==
    /\ shutTask = "spawned"
    /\ httpServer = "ready"
    /\ runPC = "returned"
    /\ CloserInvoked
    /\ \A s \in StopIds : stopPC[s] = "returned"

\* The binder calls Run has made, in the order in which it made them.
BinderLog == runLocal.log

\* C31: the binder calls made so far are the first calls of the sequence
\* InitGRPC on service 1..n, InitHTTP on service 1..n; a call that returned
\* an error is the last one made and Run has returned with it; a gateway
\* binder is called, and the gateway server constructed, only with every
\* InitGRPC returned without error.
C31_BinderOrder ==
    /\ Len(BinderLog) <= 2 * Len(svc)
    /\ \A p \in 1..Len(BinderLog) :
          /\ BinderLog[p].b = IF p <= Len(svc) THEN "InitGRPC" ELSE "InitHTTP"
          /\ BinderLog[p].i = IF p <= Len(svc) THEN p ELSE p - Len(svc)
          /\ BinderLog[p].err
                => (p = Len(BinderLog) /\ runPC = "returned" /\ runErr.src = "init")
    /\ Len(BinderLog) > Len(svc) => grpcServer # "nil"
    /\ httpServer # "nil"
          => /\ Len(BinderLog) = 2 * Len(svc)
             /\ \A p \in 1..Len(BinderLog) : ~BinderLog[p].err

C31_Witness ==
    /\ Len(svc) = MaxSvc
    /\ Len(BinderLog) = MaxSvc + 1
    /\ BinderLog[MaxSvc + 1] = [b |-> "InitHTTP", i |-> 1, err |-> TRUE]
    /\ runPC = "returned"

\* C32: when timedCall has returned, its operation is still running or has
\* finished, never cancelled, and while it runs it can finish; its
\* finishing after timedCall returned changes nothing of the Stop
\* invocation that called it; once finished the task of timedCall has
\* ended for good, and it has ended when Stop returns.
C32_AbandonedNotCancelled ==
    /\ [](\A s \in StopIds :
            /\ (stopPC[s] = "force" /\ ~panicked)
                  => /\ gsTask[s] \in {"waiting", "done"}
                     /\ gsTask[s] = "waiting" => ENABLED GracefulStop(s)
            /\ stopPC[s] = "returned" => gsTask[s] \in {"none", "done"})
    /\ [][\A s \in StopIds :
            /\ (stopPC[s] = "force" /\ stopPC'[s] = "force"
                    /\ gsTask[s] = "waiting" /\ gsTask'[s] = "done")
                  => UNCHANGED <<stopPC, stopIdx, stopRet, forced, ctxDone,
                                 gracefulWait, shutTask, httpServer>>
            /\ gsTask[s] = "done" => gsTask'[s] = "done"]_vars

C32_Witness ==
    \E s \in StopIds :
        /\ s = SignalStop
        /\ stopPC[s] = "force"
        /\ gsTask[s] = "waiting"
        /\ grpcServer = "draining"
        /\ grpcTask = "serving"

\* Transport tasks that have been started and have not yet written their
\* outcome.
PendingTasks ==
    (IF grpcTask \in {"spawned", "serving"} THEN {"grpc"} ELSE {}) \cup
    (IF httpTask \in {"spawned", "serving"} THEN {"http"} ELSE {})

\* C33: the channel always has a free slot for every task that has yet to
\* write; each task writes once, so at most two values are ever written;
\* a started task can always take its next step and a serving task can
\* write its outcome and end, wherever Run is.
C33_SendNeverBlocks ==
    /\ Len(errChan) + Cardinality(PendingTasks) <= ErrChanCap
    /\ Len(errChan) + (IF RunHasRead /\ runErr.src # "init" THEN 1 ELSE 0)
          = Cardinality(ReturnedTasks)
    /\ ~panicked
          => /\ grpcTask = "spawned" => ENABLED GRPCStart
             /\ grpcTask = "serving" => ENABLED GRPCServeReturn
             /\ httpTask = "spawned" => ENABLED HTTPStart
             /\ httpTask = "serving" => ENABLED HTTPServeReturn

C33_Witness ==
    /\ runPC = "returned"
    /\ ReturnedTasks = {"grpc", "http"}
    /\ Len(errChan) = 1
    /\ NoStop
    /\ grpcServer = "ready" /\ httpServer = "ready"

\* Stop invocation s has passed its test of the RPC handle (core.go:418).
PastHandleTest(s) == stopPC[s] \in {"timed", "force", "svcstop", "defer", "returned"}

\* C34: on a supervisor whose transports are constructed, every Stop
\* invocation that has passed the test of the RPC handle has begun a
\* graceful stop of its own, every invocation past timedCall and the forced
\* stop has called grpcServer.Stop() itself, and every drainable service has
\* received one Stop() from each invocation whose loop has passed it; when
\* the k invocations made have all returned there have been k graceful
\* stops, k forced stops and k Stop() calls on each drainable service.
C34_NoDeduplication ==
    /\ \A s \in StopIds :
          /\ PastHandleTest(s) <=> gsTask[s] # "none"
          /\ InSvcStop(s) <=> forced[s]
    /\ \A i \in SvcIdx :
          stopCalls[i] = IF svc[i].stop THEN SvcStopCount(i) ELSE 0
    /\ (\A s \in StopIds : ~InFlight(s))
          => /\ Cardinality({s \in StopIds : gsTask[s] = "done"}) = Cardinality(Entered)
             /\ Cardinality({s \in StopIds : forced[s]}) = Cardinality(Entered)
             /\ \A i \in SvcIdx : svc[i].stop => stopCalls[i] = Cardinality(Entered)

C34_Witness ==
    /\ Entered = StopIds
    /\ \A s \in StopIds : stopPC[s] = "returned" /\ forced[s] /\ gsTask[s] = "done"
    /\ \A i \in SvcIdx : svc[i].stop /\ stopCalls[i] = MaxStops + 1
    /\ runPC = "returned"

\* C35: a service receives FailCheck(true) only if it implements
\* CBGracefulStopper and Stop() only if it implements CBStopper, whatever
\* else it implements; when the Stop invocations made have all returned,
\* each service has received one FailCheck(true) per invocation if it has
\* that method and none otherwise, and likewise for Stop().
C35_CapabilityAlone ==
    \A i \in SvcIdx :
        /\ failCalls[i] > 0 => svc[i].fail
        /\ stopCalls[i] > 0 => svc[i].stop
        /\ (\A s \in StopIds : ~InFlight(s))
              => /\ failCalls[i] = IF svc[i].fail THEN Cardinality(Entered) ELSE 0
                 /\ stopCalls[i] = IF svc[i].stop THEN Cardinality(Entered) ELSE 0

C35_Witness ==
    /\ svc = <<[fail |-> TRUE, stop |-> FALSE], [fail |-> FALSE, stop |-> TRUE]>>
    /\ failCalls = <<MaxStops + 1, 0>>
    /\ stopCalls = <<0, MaxStops + 1>>
    /\ \A s \in StopIds : stopPC[s] = "returned"

\* C36: the step in which a binder fails is Run's return: it is taken
\* whatever the gracefulWait count and calls no closer; after it no closer
\* is ever called and no transport task started, and when the failing
\* binder was a gateway binder c.grpcServer stays non-nil.
C36_BindFailureSkipsTeardown ==
    /\ [][(runErr.src # "init" /\ runErr'.src = "init")
            => /\ runPC' = "returned"
               /\ UNCHANGED <<closeCalls, gracefulWait, stopPC>>]_vars
    /\ [](runErr.src = "init"
            => /\ runPC = "returned"
               /\ \A j \in 1..closers : closeCalls[j] = 0
               /\ grpcTask = "none" /\ httpTask = "none"
               /\ runErr.err = "ErrInitHTTP" => grpcServer # "nil")

C36_Witness ==
    /\ runErr = [src |-> "init", err |-> "ErrInitHTTP"]
    /\ runPC = "returned"
    /\ gracefulWait > 0
    /\ closers > 0
    /\ grpcServer = "stopped"

\* A step of a Stop invocation or of a goroutine it started.
StopStep ==
    \/ stopPC' # stopPC
    \/ gsTask' # gsTask
    \/ shutTask' # shutTask
    \/ forced' # forced

\* C37: a step of Stop, or of a goroutine Stop started, leaves c.svc,
\* c.closers, c.config and c.cancelFunc as they were, calls no closer, and
\* turns neither handle from nil to non-nil or back; the gracefulWait
\* count changes only in the first and the last step of a Stop invocation.
C37_StopFrame ==
    /\ [][StopStep
            => /\ UNCHANGED <<svc, closers, closeCalls, config, cancelFunc>>
               /\ (grpcServer' = "nil") <=> (grpcServer = "nil")
               /\ (httpServer' = "nil") <=> (httpServer = "nil")]_vars
    /\ [][gracefulWait' # gracefulWait
            => \E s \in StopIds :
                 \/ /\ stopPC[s] = "idle" /\ stopPC'[s] # "idle"
                    /\ gracefulWait' = gracefulWait + 1
                 \/ /\ stopPC[s] # "returned" /\ stopPC'[s] = "returned"
                    /\ gracefulWait' = gracefulWait - 1]_vars

C37_Witness ==
    /\ \A s \in StopIds : stopPC[s] = "returned" /\ forced[s]
    /\ svc = <<Plain, Graceful>>
    /\ grpcServer = "stopped"
    /\ httpServer = "closed"
    /\ closers = MaxClosers
    /\ ~CloserInvoked
    /\ gracefulWait = 0

\* A drain step has been taken on a transport: a graceful or forced stop of
\* the RPC server, or a Shutdown of the gateway, has been begun.
DrainBegun ==
    \/ \E s \in StopIds : gsTask[s] # "none" \/ forced[s]
    \/ shutTask # "none"
    \/ grpcServer \in {"draining", "stopped"}
    \/ httpServer = "closed"

\* C38: no drain step is taken on a transport before Run has started both
\* transport tasks.
C38_DrainOnlyAfterStart ==
    DrainBegun => (grpcTask # "none" /\ httpTask # "none")

\* C39: the watcher exists exactly when DisableSignalHandler is false, only
\* then is Stop ever entered on a signal, and the duration the watcher
\* passes to Stop is ShutdownDurationInSeconds seconds when that is
\* positive and DefaultShutdownDurationInSeconds seconds otherwise.
C39_WatcherDuration ==
    /\ (watcher # "none") <=> ~config.disable
    /\ stopPC[SignalStop] # "idle" => ~config.disable
    /\ ~config.disable
          => sigDur = Second * (IF config.shutdown > 0
                                THEN config.shutdown
                                ELSE DefaultShutdownDurationInSeconds)

====
